---- MODULE Spec2Model ----
(***************************************************************************)
(* A model of the ABM supplier API: the document store adapter             *)
(* (src/database.py, class DatabaseHandler) and the route handlers of      *)
(* src/main.py that resolve, create, vote on and delete company documents. *)
(*                                                                         *)
(* Four specifications are given.                                          *)
(*   SpecDb    applies the functions of DatabaseHandler with the           *)
(*             parameters they declare (collection_name, data, db ...),    *)
(*             and the steps of add_company that use their results.        *)
(*   Spec      is the HTTP API: one action per route handler, each a whole *)
(*             request from its arguments to its response.                 *)
(*   SpecPages is the paginated read over collections of every size up to  *)
(*             MaxCount, with every limit the route accepts.               *)
(*   SpecCalls runs the functions of DatabaseHandler for two concurrent    *)
(*             callers, one database operation per step.                   *)
(*                                                                         *)
(* The functions of DatabaseHandler are declared without `self` and        *)
(* without @staticmethod (database.py:18,29,45,59), and main.py calls them *)
(* on the instance data_handler (main.py:31).  Python therefore passes the *)
(* instance as the first positional argument: every such call either gets  *)
(* one argument too many (TypeError) or runs with its arguments shifted by *)
(* one.  The handlers of Spec make these calls as the interpreter does.    *)
(***************************************************************************)
EXTENDS Integers, Sequences, FiniteSets, TLC

VARIABLES
    db,      \* the database: collection names and, per collection, its documents in insertion order
    nextId,  \* the next ObjectId the store generates
    op,      \* the request (or call) served last, with its arguments
    resp,    \* the response (or return value) of that request
    pre,     \* the database as it was before that request
    last,    \* the get_or_create call answered just before that request, if any
    writes,  \* how many requests have changed the database so far
    calls    \* per concurrent caller, the call it is in and how far that call has got

vars == <<db, nextId, op, resp, pre, last, writes, calls>>

\* ------------------------------------------------------------------ bounds

MaxDocs == 2
MaxId == 2
MaxVotes == 1
MaxBatch == 2
MaxSeedCompanies == 2
MaxLimit == 2
MaxPage == 2
MaxWrites == 1
MaxCount == 12
MaxReadPage == 13

\* `limit: int = Query(10, ge=1, le=100)` (main.py:62)
LimitCap == 100

\* --------------------------------------------------------------- documents

\* A document is a function from field names to values.  An identifier is
\* [t, n]: t = "oid" is a bson ObjectId, t = "str" a string; a string with
\* n = 0 is not the 24-hex-digit form of any ObjectId.
Oid(n) == [t |-> "oid", n |-> n]
Str(n) == [t |-> "str", n |-> n]
BadStr == [t |-> "str", n |-> 0]

\* bson.ObjectId(x): accepts an ObjectId or a well-formed string, raises otherwise.
ObjectIdOk(x) == x.t = "oid" \/ (x.t = "str" /\ x.n > 0)
ObjectId(x) == Oid(x.n)

\* str(x) of an ObjectId
str(x) == Str(x.n)

\* isinstance(x, str)
IsStr(x) == x.t = "str"

\* dict.pop(k, None) for every k of ks
Without(d, ks) == [k \in (DOMAIN d) \ ks |-> d[k]]

\* dict.update / $set: the fields of u replace or extend those of d
Updated(d, u) == u @@ d

CollectionNames ==
    {"Companies", "Locations", "Industries", "Contacts", "Employees", "Analyses_data"}

NoDocs == [c \in CollectionNames |-> <<>>]

\* datetime.now(timezone.utc), one abstract instant
Now == "now"

\* str.lower() and str.capitalize() on the strings the requests carry
Lower(s) ==
    CASE s = "Email" -> "email"
      [] s = "Locations" -> "locations"
      [] OTHER -> s

Capitalize(s) ==
    CASE s = "companies" -> "Companies"
      [] s = "employees" -> "Employees"
      [] s = "locations" -> "Locations"
      [] s = "downvote" -> "Downvote"
      [] s = "upvote" -> "Upvote"
      [] s = "sidevote" -> "Sidevote"
      [] OTHER -> s

\* ------------------------------------------------------- the store (pymongo)

\* A query document matches a stored document that holds every field of the
\* query with an equal value (the stored document may hold more fields).
Matches(doc, filter) ==
    \A k \in DOMAIN filter : k \in DOMAIN doc /\ doc[k] = filter[k]

\* Collection.find_one(filter): the position of the first match in insertion
\* order, 0 for None.
FindIndex(docs, filter) ==
    IF \E i \in 1..Len(docs) : Matches(docs[i], filter)
    THEN CHOOSE i \in 1..Len(docs) :
            /\ Matches(docs[i], filter)
            /\ \A j \in 1..(i - 1) : ~Matches(docs[j], filter)
    ELSE 0

\* Collection.insert_one(data): the store assigns the next ObjectId as _id.
InsertOne(d, nid, c, data) ==
    [db |-> [names |-> d.names \cup {c},
             docs |-> [d.docs EXCEPT ![c] = Append(@, Updated(data, [_id |-> Oid(nid)]))]],
     nextId |-> nid + 1,
     ret |-> Oid(nid)]

\* Collection.insert_many(documents): one ObjectId after the other, in order;
\* an empty list is refused (TypeError: documents must be a non-empty list).
RECURSIVE InsertMany(_, _, _, _)
InsertMany(d, nid, c, documents) ==
    IF documents = <<>>
    THEN [db |-> d, nextId |-> nid, inserted_ids |-> <<>>]
    ELSE LET r == InsertOne(d, nid, c, Head(documents))
             rest == InsertMany(r.db, r.nextId, c, Tail(documents))
         IN  [db |-> rest.db, nextId |-> rest.nextId,
              inserted_ids |-> <<r.ret>> \o rest.inserted_ids]

\* Collection.delete_one({"_id": id})
DeleteOne(docs, id) ==
    LET i == FindIndex(docs, [_id |-> id])
    IN  IF i = 0 THEN docs
        ELSE SubSeq(docs, 1, i - 1) \o SubSeq(docs, i + 1, Len(docs))

\* Collection.update_one({"_id": id}, {"$inc": {field: 1}}); a missing field counts from 0.
IncOne(docs, id, field) ==
    LET i == FindIndex(docs, [_id |-> id])
    IN  IF i = 0 THEN docs
        ELSE [docs EXCEPT ![i] =
                 Updated(@, (field :> (IF field \in DOMAIN @ THEN @[field] ELSE 0) + 1))]

\* Collection.update_one({"_id": id}, {"$push": {field: value}})
PushOne(docs, id, field, value) ==
    LET i == FindIndex(docs, [_id |-> id])
    IN  IF i = 0 THEN docs
        ELSE [docs EXCEPT ![i] =
                 Updated(@, (field :> Append(IF field \in DOMAIN @ THEN @[field] ELSE <<>>, value)))]

\* Collection.update_one({"_id": id}, {"$set": fields})
SetOne(docs, id, fields) ==
    LET i == FindIndex(docs, [_id |-> id])
    IN  IF i = 0 THEN docs ELSE [docs EXCEPT ![i] = Updated(@, fields)]

\* UpdateResult.matched_count / DeleteResult.deleted_count of a query by _id
MatchedCount(docs, id) == IF FindIndex(docs, [_id |-> id]) = 0 THEN 0 ELSE 1

\* ------------------------------------------- DatabaseHandler (database.py)

\* `if collection_name not in db.list_collection_names(): db.create_collection(...)`
EnsureCollection(d, c) == [d EXCEPT !.names = @ \cup {c}]

\* get_or_create as it would be without the find_one of line 23
GetOrCreateNoLookup(c, data, d, nid) ==
    InsertOne(EnsureCollection(d, c), nid, c, data)

\* get_or_create(collection_name, data, db)
get_or_create(c, data, d, nid) ==
    LET d1 == EnsureCollection(d, c)
        existing == FindIndex(d1.docs[c], data)
    IN  IF existing # 0
        THEN [db |-> d1, nextId |-> nid, ret |-> d1.docs[c][existing]["_id"]]
        ELSE InsertOne(d1, nid, c, data)

\* get_or_create, lines 19-23: the collection is created when absent and the
\* candidate looked up; `existing` is what find_one returned.
GetOrCreateLookup(c, data, d) ==
    LET d1 == EnsureCollection(d, c)
        i == FindIndex(d1.docs[c], data)
    IN  [db |-> d1,
         existing |-> IF i = 0 THEN [found |-> FALSE]
                      ELSE [found |-> TRUE, id |-> d1.docs[c][i]["_id"]]]

\* get_or_create with a second lookup in the step that inserts
GetOrCreateResultRechecked(c, data, d, nid, existing) == get_or_create(c, data, d, nid)

\* get_or_create, lines 24-27: the identifier of `existing`, or of the
\* document inserted now
GetOrCreateResult(c, data, d, nid, existing) ==
    IF existing.found
    THEN [db |-> d, nextId |-> nid, ret |-> existing.id]
    ELSE InsertOne(d, nid, c, data)

\* add_documents(db, documents, collection_name, "multiple")
add_documents_multiple(d, nid, documents, c) ==
    LET d1 == EnsureCollection(d, c)
        stamped == [k \in 1..Len(documents) |-> Updated(documents[k], [created_at |-> Now])]
        r == InsertMany(d1, nid, c, stamped)
    IN  IF documents = <<>>
        THEN [db |-> d1, nextId |-> nid, inserted_ids |-> <<>>,
              exc |-> "TypeError: documents must be a non-empty list"]
        ELSE [db |-> r.db, nextId |-> r.nextId, inserted_ids |-> r.inserted_ids, exc |-> ""]

\* delete_documents(db, document_ids, collection_name, "single")
delete_documents_single(d, id, c) ==
    LET d1 == EnsureCollection(d, c)
    IN  IF ~ObjectIdOk(id)
        THEN [db |-> d1, exc |-> "InvalidId", deleted_count |-> 0]
        ELSE [db |-> [d1 EXCEPT !.docs[c] = DeleteOne(@, ObjectId(id))],
              exc |-> "",
              deleted_count |-> MatchedCount(d1.docs[c], ObjectId(id))]

\* `if not isinstance(doc_id, str): doc_id = ObjectId(doc_id)`: a string stays a string.
VoteTargetId(doc_id) == IF ~IsStr(doc_id) THEN ObjectId(doc_id) ELSE doc_id

\* perform_vote(db, doc_id, vote, collection, issue)
perform_vote(d, doc_id, vote, c, issue) ==
    LET id == VoteTargetId(doc_id)
        docs == d.docs[c]
    IN  CASE Lower(vote) = "upvote" ->
               [db |-> [d EXCEPT !.docs[c] = IncOne(docs, id, "upvotes")],
                exc |-> "", matched_count |-> MatchedCount(docs, id)]
          [] Lower(vote) = "downvote" ->
               [db |-> [d EXCEPT !.docs[c] =
                            PushOne(IncOne(docs, id, "downvotes"), id, "issues", issue)],
                exc |-> "", matched_count |-> MatchedCount(docs, id)]
          [] OTHER ->
               [db |-> d, exc |-> "400: Invalid vote type", matched_count |-> 0]

\* ---------------------------------------------------- the API (main.py)

\* The bound calls data_handler.f(...) of main.py.  DatabaseHandler declares
\* perform_vote(db, doc_id, vote, collection, issue=None) with five parameters
\* and no self (database.py:59); data_handler.perform_vote(db, x, vote, c, issue)
\* passes six positional arguments, the instance first, so the call raises
\* TypeError before any statement of the function runs.  The same holds for
\* delete_documents (database.py:45: four parameters, five arguments) and
\* add_documents (database.py:29).
BoundPerformVote(d, doc_id, vote, c, issue) ==
    [db |-> d,
     exc |-> "TypeError: DatabaseHandler.perform_vote() takes from 4 to 5 positional arguments but 6 were given",
     matched_count |-> 0]

BoundDeleteDocuments(d, ids, c, qty) ==
    [db |-> d,
     exc |-> "TypeError: DatabaseHandler.delete_documents() takes from 3 to 4 positional arguments but 5 were given",
     deleted_count |-> 0]

BoundAddDocuments(d, documents, c, qty) ==
    [db |-> d,
     exc |-> "TypeError: DatabaseHandler.add_documents() takes from 3 to 4 positional arguments but 5 were given"]

\* data_handler.get_or_create("Contacts", contact) binds collection_name to the
\* instance, data to the collection's name and db to the candidate dict
\* (database.py:18); line 19 then reads db.list_collection_names on a dict.
BoundGetOrCreate(c, data) ==
    [exc |-> "AttributeError: 'dict' object has no attribute 'list_collection_names'"]

\* A response: the HTTP status, the detail of an error, the body of a success.
NoBody == [none |-> TRUE]
Response(d, nid, status, detail, body) ==
    [db |-> d, nextId |-> nid, status |-> status, detail |-> detail, body |-> body]

\* ---- vote_entity (main.py:821-885)

contact_fields == {"phone", "email"}
location_fields == {"country", "state", "city", "latitude", "longitude"}

\* The test of line 841 as it would be without its `"suggestion" not in issue`
IssueShapeIgnoresSuggestion(issue) == {"field", "reason"} \subseteq DOMAIN issue

\* `"field" not in issue or "reason" not in issue or "suggestion" not in issue` (line 841)
IssueShapeOk(issue) == {"field", "reason", "suggestion"} \subseteq DOMAIN issue

\* `except Exception as e: raise HTTPException(status_code=500, detail=str(e))` (line 884)
VoteFailed(d, nid, detail) == Response(d, nid, 500, detail, NoBody)

\* lines 869-870 / 880-881 and the return of line 883
VoteOutcome(d, nid, r) ==
    IF r.exc # "" THEN VoteFailed(d, nid, r.exc)
    ELSE IF r.matched_count = 0 THEN VoteFailed(r.db, nid, "404: Document not found")
    ELSE Response(r.db, nid, 200, "", [message |-> "successful"])

\* lines 851-853, 857-859, 863-864, 875-876: the parent is looked up and the
\* vote goes to the document its `ref` field names.
RoutedVote(d, nid, parent, id, ref, vote, target, issue) ==
    IF ~ObjectIdOk(id) THEN VoteFailed(d, nid, "InvalidId")
    ELSE LET i == FindIndex(d.docs[parent], [_id |-> ObjectId(id)])
         IN  IF i = 0
             THEN VoteFailed(d, nid, "TypeError: 'NoneType' object is not subscriptable")
             ELSE IF ref \notin DOMAIN d.docs[parent][i]
             THEN VoteFailed(d, nid, "KeyError")
             ELSE VoteOutcome(d, nid,
                      BoundPerformVote(d, d.docs[parent][i][ref], vote, target, issue))

\* lines 848-881: which document the vote is recorded on
VoteRouting(d, nid, id, vote, coll, issue) ==
    LET field == Lower(issue["field"])
    IN  IF coll = "Companies"
        THEN CASE field \in contact_fields ->
                    RoutedVote(d, nid, "Companies", id, "contact_id", vote, "Contacts", issue)
               [] field \in location_fields ->
                    RoutedVote(d, nid, "Companies", id, "location_id", vote, "Locations", issue)
               [] field = "industry" ->
                    RoutedVote(d, nid, "Companies", id, "industry_id", vote, "Industries", issue)
               [] OTHER ->
                    VoteOutcome(d, nid, BoundPerformVote(d, id, vote, "Companies", issue))
        ELSE IF field \in contact_fields
             THEN RoutedVote(d, nid, "Employees", id, "contact_id", vote, "Contacts", issue)
             ELSE VoteOutcome(d, nid, BoundPerformVote(d, id, vote, "Employees", issue))

\* vote_entity(id, vote, collection, issue): issue is [null, fields], null for
\* a JSON null body.
vote_entity(d, nid, id, vote, collection, issue) ==
    LET coll == Capitalize(collection)
    IN  IF coll \notin {"Companies", "Employees"}
        THEN VoteFailed(d, nid, "400: Invalid collection name")
        ELSE IF Lower(vote) = "downvote" /\ issue.null
        THEN VoteFailed(d, nid, "400: Invalid datatype for issue. It has to be in a json format")
        ELSE IF Lower(vote) = "downvote" /\ DOMAIN issue.fields = {}
        THEN VoteFailed(d, nid, "400: Issue can not be empty")
        ELSE IF issue.null
        THEN VoteFailed(d, nid, "TypeError: argument of type 'NoneType' is not iterable")
        ELSE IF ~IssueShapeOk(issue.fields)
        THEN VoteFailed(d, nid, "400: Invalid issue format")
        ELSE VoteRouting(d, nid, id, vote, coll, Updated(issue.fields, [created_at |-> Now]))

\* ---- remove_company (main.py:316-384)

\* `except Exception as e: raise HTTPException(status_code=400, detail=str(e))`
\* (lines 232, 383, 485)
Failed400(d, nid, detail) == Response(d, nid, 400, detail, NoBody)

\* The loop of lines 348-361 from position i on: an exception, or the lists
\* errored_documents and ok_documents.
RECURSIVE RemoveScan(_, _, _, _, _)
RemoveScan(d, ids, i, errored, ok) ==
    IF i > Len(ids) THEN [exc |-> "", errored |-> errored, ok |-> ok]
    ELSE IF ~ObjectIdOk(ids[i]) THEN [exc |-> "InvalidId", errored |-> errored, ok |-> ok]
    ELSE LET ci == FindIndex(d.docs["Companies"], [_id |-> ObjectId(ids[i])])
         IN  IF ci = 0
             THEN RemoveScan(d, ids, i + 1,
                      Append(errored, [error |-> "Company not found", data |-> ids[i]]), ok)
             ELSE IF "location_id" \in DOMAIN d.docs["Companies"][ci]
             THEN LET r == BoundDeleteDocuments(d, d.docs["Companies"][ci]["location_id"],
                                                "Locations", "single")
                  IN  IF r.exc # "" THEN [exc |-> r.exc, errored |-> errored, ok |-> ok]
                      ELSE RemoveScan(r.db, ids, i + 1, errored, Append(ok, ids[i]))
             ELSE RemoveScan(d, ids, i + 1, errored, Append(ok, ids[i]))

\* remove_company(ids): ids is the list of strings of the request body
remove_company(d, nid, ids) ==
    IF Len(ids) = 1
    THEN \* line 325: ObjectId(ids) is given the list itself
         Failed400(d, nid, "TypeError: id must be an instance of (bytes, str, ObjectId), not <class 'list'>")
    ELSE IF Len(ids) > 1
    THEN LET s == RemoveScan(d, ids, 1, <<>>, <<>>)
         IN  IF s.exc # "" THEN Failed400(d, nid, s.exc)
             ELSE IF Len(s.errored) = Len(ids)
             THEN Response(d, nid, 200, "",
                      [message |-> "No documents were deleted.",
                       failed_results |-> s.errored[Len(s.errored)],
                       failed_count |-> Len(s.errored),
                       successful_count |-> 0])
             ELSE LET r == BoundDeleteDocuments(d, s.ok, "Companies", "multiple")
                  IN  IF r.exc # "" THEN Failed400(d, nid, r.exc)
                      ELSE IF s.errored = <<>>
                      THEN Failed400(r.db, nid, "NameError: errored_document")
                      ELSE Response(r.db, nid, 200, "",
                               [message |-> "Documents were deleted.",
                                failed_results |-> s.errored[Len(s.errored)],
                                failed_count |-> Len(ids) - r.deleted_count,
                                successful_count |-> r.deleted_count])
    ELSE Failed400(d, nid, "400: No ids were passed")

\* ---- get_data (main.py:59-109)

\* serialize_doc (main.py:54-57)
serialize_doc(doc) ==
    IF "_id" \in DOMAIN doc THEN Updated(doc, [_id |-> str(doc["_id"])]) ELSE doc

\* lines 86-87: doc_location.pop("_id"), doc_location.pop("created_at")
StripLocation(location) == Without(location, {"_id", "created_at"})

\* lines 83-95 for one document: the document as the loop leaves it, and
\* whether an exception left the loop.
ResolveDoc(doc, d) ==
    LET locFound ==
            IF "location_id" \in DOMAIN doc /\ ObjectIdOk(doc["location_id"])
            THEN FindIndex(d.docs["Locations"], [_id |-> ObjectId(doc["location_id"])])
            ELSE 0
        doc1 ==
            IF locFound # 0
            THEN Without(Updated(doc, [location |->
                             StripLocation(serialize_doc(d.docs["Locations"][locFound]))]),
                         {"location_id"})
            ELSE doc
        indFound ==
            IF "industry_id" \in DOMAIN doc1 /\ ObjectIdOk(doc1["industry_id"])
            THEN FindIndex(d.docs["Industries"], [_id |-> ObjectId(doc1["industry_id"])])
            ELSE 0
    IN  IF "location_id" \in DOMAIN doc /\ locFound = 0
        THEN [doc |-> doc, exc |-> TRUE]
        ELSE IF "industry_id" \notin DOMAIN doc1
        THEN [doc |-> doc1, exc |-> FALSE]
        ELSE IF indFound = 0 \/ "name" \notin DOMAIN d.docs["Industries"][indFound]
        THEN [doc |-> doc1, exc |-> TRUE]
        ELSE [doc |-> Without(Updated(doc1, [industry |-> d.docs["Industries"][indFound]["name"]]),
                              {"industry_id"}),
              exc |-> FALSE]

\* lines 80-98: one try around the whole loop; the first exception ends it.
RECURSIVE ResolveFrom(_, _, _)
ResolveFrom(docs, i, d) ==
    IF i > Len(docs) THEN docs
    ELSE LET r == ResolveDoc(docs[i], d)
         IN  IF r.exc THEN [docs EXCEPT ![i] = r.doc]
             ELSE ResolveFrom([docs EXCEPT ![i] = r.doc], i + 1, d)

Min(a, b) == IF a < b THEN a ELSE b

\* skip(page - 1): the offset of line 74 without its `* limit`
PageOfSkipsPages(docs, page, limit) ==
    LET skip == page - 1
        raw == SubSeq(docs, skip + 1, Min(skip + limit, Len(docs)))
    IN  [i \in 1..Len(raw) |-> serialize_doc(raw[i])]

\* lines 75-77: find().skip(skip).limit(limit), each document serialized
PageOf(docs, page, limit) ==
    LET skip == (page - 1) * limit
        raw == SubSeq(docs, skip + 1, Min(skip + limit, Len(docs)))
    IN  [i \in 1..Len(raw) |-> serialize_doc(raw[i])]

\* total_count // limit: the division of line 108 without its `+ limit - 1`
TotalPagesFloor(total_count, limit) == total_count \div limit

\* line 108
TotalPages(total_count, limit) == (total_count + limit - 1) \div limit

get_data(d, nid, collection, page, limit) ==
    LET coll == Capitalize(collection)
    IN  IF coll \notin d.names
        THEN Response(d, nid, 404, "Collection not found", NoBody)
        ELSE LET documents == PageOf(d.docs[coll], page, limit)
             IN  Response(d, nid, 200, "",
                     [data |-> IF coll = "Companies" THEN ResolveFrom(documents, 1, d)
                               ELSE documents,
                      page |-> page,
                      total_pages |-> TotalPages(Len(d.docs[coll]), limit)])

\* ---- search_company (main.py:236-314)

\* A query parameter that was not given (Query(None)), and the None a lookup
\* returns
NoId == [t |-> "none", n |-> 0]
None == [none |-> TRUE]

\* {"$regex": pattern, "$options": "i"}: the pattern occurs in the value,
\* letter case ignored, over the strings the requests and documents carry.
RegexFinds(pattern, value) ==
    <<pattern, value>> \in
        {<<"acme", "Acme">>, <<"acme", "Acme Labs">>, <<"Labs", "Acme Labs">>,
         <<"sf", "SF">>, <<"Tech", "Tech">>}

\* find({field: {"$regex": pattern, ...}}).skip(skip).limit(limit), serialized
\* (lines 299-301, 306-308, 311-313)
SearchPage(docs, field, pattern, page, limit) ==
    PageOf(SelectSeq(docs, LAMBDA doc : field \in DOMAIN doc /\ RegexFinds(pattern, doc[field])),
           page, limit)

search_company(d, nid, id, name, city, industry, page, limit) ==
    LET docs == d.docs["Analyses_data"]
    IN  IF id = NoId /\ name = "" /\ city = ""
        THEN Response(d, nid, 400, "You must provide either 'id' or 'name' to search.", NoBody)
        ELSE IF id # NoId
        THEN IF ~ObjectIdOk(id)
             THEN Response(d, nid, 400, "Invalid ID format.", NoBody)
             ELSE LET i == FindIndex(docs, [_id |-> ObjectId(id)])
                  IN  Response(d, nid, 200, "",
                          [message |-> "Company found by ID",
                           data |-> IF i = 0 THEN None ELSE docs[i]])
        ELSE IF name # ""
        THEN Response(d, nid, 200, "",
                 [message |-> "Companies found by name",
                  data |-> SearchPage(docs, "name", name, page, limit)])
        ELSE Response(d, nid, 200, "",
                 [message |-> "Companies found by city",
                  data |-> SearchPage(docs, "city", city, page, limit)])

\* ---- add_company (main.py:114-233)

company_required_fields == <<"name", "industry", "location", "revenue", "size">>
location_required_fields == <<"country", "state", "city", "latitude", "longitude">>

RemoveAt(seq, i) == SubSeq(seq, 1, i - 1) \o SubSeq(seq, i + 1, Len(seq))

\* The inner loops of lines 130-138 and 144-152 from field k on: each field
\* missing from `present` appends one error entry and pops data[idx]; the
\* `continue` continues the inner loop.  list.pop raises IndexError once the
\* list is shorter than idx.
RECURSIVE FieldScan(_, _, _, _, _, _, _)
FieldScan(data, idx, company, fields, present, k, errored) ==
    IF k > Len(fields) THEN [exc |-> "", data |-> data, errored |-> errored]
    ELSE IF fields[k] \in present
    THEN FieldScan(data, idx, company, fields, present, k + 1, errored)
    ELSE LET e == Append(errored, [error |-> <<"missing", fields[k]>>, data |-> company])
         IN  IF idx > Len(data)
             THEN [exc |-> "IndexError: pop index out of range", data |-> data, errored |-> e]
             ELSE FieldScan(RemoveAt(data, idx), idx, company, fields, present, k + 1, e)

\* lines 171-173, 180-186, 200-202: a document starts with no votes
Votable(doc) == Updated(doc, [upvotes |-> 0, downvotes |-> 0, issues |-> <<>>])

\* A local variable that has not been assigned
Unbound == [t |-> "unbound", n |-> 0]

\* lines 195-206: the company document prepared for insertion from the batch
\* element and the identifiers of its contact, industry and location.
\* contact_id is assigned only for an element with a contact (line 174).
CompanyData(company, contact_id, industry_id, location_id) ==
    IF contact_id = Unbound
    THEN [exc |-> "UnboundLocalError: contact_id", ret |-> company]
    ELSE LET c196 == Updated(company, [industry_id |-> location_id])
             c197 == Updated(c196, [industry_id |-> industry_id])
             c198 == Updated(c197, [contact_id |-> contact_id])
             c202 == Votable(c198)
         IN  IF "contact" \notin DOMAIN company
             THEN [exc |-> "KeyError: 'contact'", ret |-> Without(c202, {"industry", "location"})]
             ELSE [exc |-> "", ret |-> Without(c202, {"industry", "location", "contact"})]

\* line 154
ContactRejected(company) ==
    /\ "contact" \in DOMAIN company
    /\ ("email" \notin DOMAIN company["contact"] \/ "phone" \notin DOMAIN company["contact"])

\* The loop of lines 129-208 from position idx of the list it iterates over
\* and mutates.  An iteration that is not cut short by the `continue` of line
\* 161 reaches a bound get_or_create call (lines 174, 188).
RECURSIVE AddScan(_, _, _)
AddScan(data, idx, errored) ==
    IF idx > Len(data) THEN [exc |-> "", data |-> data, errored |-> errored]
    ELSE
    LET company == data[idx]
        r1 == FieldScan(data, idx, company, company_required_fields, DOMAIN company, 1, errored)
        r2 == FieldScan(r1.data, idx, company, location_required_fields,
                        DOMAIN company["location"], 1, r1.errored)
        e3 == Append(r2.errored, [error |-> <<"contact">>, data |-> company])
    IN  IF r1.exc # "" THEN r1
        ELSE IF "location" \notin DOMAIN company
        THEN [r1 EXCEPT !.exc = "TypeError: argument of type 'NoneType' is not iterable"]
        ELSE IF r2.exc # "" THEN r2
        ELSE IF ContactRejected(company)
        THEN IF idx > Len(r2.data)
             THEN [exc |-> "IndexError: pop index out of range", data |-> r2.data, errored |-> e3]
             ELSE AddScan(RemoveAt(r2.data, idx), idx + 1, e3)
        ELSE IF "contact" \in DOMAIN company
        THEN [r2 EXCEPT !.exc = BoundGetOrCreate("Contacts", company["contact"]).exc]
        ELSE IF "industry" \notin DOMAIN company
        THEN [r2 EXCEPT !.exc = "TypeError: 'NoneType' object does not support item assignment"]
        ELSE IF ~company["industry"].dict
        THEN [r2 EXCEPT !.exc = "TypeError: 'str' object does not support item assignment"]
        ELSE [r2 EXCEPT !.exc = BoundGetOrCreate("Industries", company["industry"]).exc]

\* lines 213-230: the report, by the number of error entries and of
\* inserted identifiers
AddReport(errored_documents, inserted_ids) ==
    [message |->
         IF Len(errored_documents) > 0 /\ Len(errored_documents) # Len(inserted_ids)
         THEN "Some Companies were added successfully but others failed"
         ELSE IF Len(errored_documents) > 0 /\ Len(errored_documents) = Len(inserted_ids)
         THEN "No companies were added"
         ELSE "All Companies added successfully",
     failed_results |-> errored_documents,
     successful_results |-> inserted_ids]

\* lines 211-233 with add_documents applied to the parameters it declares
\* (db, documents, collection_name, qty_type): the insertion of the prepared
\* companies and the report.
AddTail(d, nid, companies, errored_documents) ==
    LET r == add_documents_multiple(d, nid, companies, "Companies")
    IN  IF r.exc # "" THEN Response(r.db, nid, 400, r.exc, NoBody)
        ELSE Response(r.db, r.nextId, 200, "", AddReport(errored_documents, r.inserted_ids))

\* add_company(data): the scan, then the bound add_documents call of line 211
add_company(d, nid, data) ==
    LET s == AddScan(data, 1, <<>>)
    IN  IF s.exc # "" THEN Failed400(d, nid, s.exc)
        ELSE Failed400(d, nid, BoundAddDocuments(d, <<>>, "Companies", "multiple").exc)

\* ---- update_company (main.py:387-486)

EmptyDict == <<>>

IsEmpty(dict) == DOMAIN dict = {}

\* lines 412 and 437: `field not in d or not d[field]`
MissingFields(dict, fields) == {f \in fields : f \notin DOMAIN dict \/ dict[f] = ""}

\* lines 472-473: only created_at is taken out of the update
DropCreatedAt(company_update) == Without(company_update, {"created_at"})

\* lines 407-429 and 432-454: the sub-update of the document the company's
\* `ref` names in collection c, or the insert of a new one.  ctx carries the
\* database, the next identifier, company_update and the exception raised.
SubUpdate(ctx, company, sub, ref, c, required, notFound, missingMsg) ==
    IF ctx.exc # "" \/ IsEmpty(sub) THEN ctx
    ELSE IF ref \in DOMAIN company
    THEN IF MissingFields(sub, required) # {}
         THEN [ctx EXCEPT !.exc = missingMsg]
         ELSE IF ~ObjectIdOk(company[ref])
         THEN [ctx EXCEPT !.exc = "InvalidId"]
         ELSE IF MatchedCount(ctx.db.docs[c], ObjectId(company[ref])) = 0
         THEN [ctx EXCEPT !.exc = notFound]
         ELSE [ctx EXCEPT !.db.docs[c] = SetOne(@, ObjectId(company[ref]), sub)]
    ELSE LET r == InsertOne(ctx.db, ctx.nextId, c, sub)
         IN  [ctx EXCEPT !.db = r.db,
                         !.nextId = r.nextId,
                         !.cu = Updated(@, (ref :> str(r.ret)))]

\* lines 457-469: update_data.industry is a str (models.py:11); `$set` of a
\* str is refused by the server and insert_one of a str by the driver.
IndustryUpdate(ctx, company, industry) ==
    IF ctx.exc # "" \/ industry = "" THEN ctx
    ELSE IF "industry_id" \in DOMAIN company
    THEN IF ~ObjectIdOk(company["industry_id"])
         THEN [ctx EXCEPT !.exc = "InvalidId"]
         ELSE [ctx EXCEPT !.exc = "WriteError: Modifiers operate on fields but we found type string instead"]
    ELSE [ctx EXCEPT !.exc = "TypeError: document must be an instance of dict"]

\* update_company(id, update_data): update_data is [null, name, other_fields,
\* location, contact, industry]; "" and the empty dict stand for None.
update_company(d, nid, id, u) ==
    IF ~ObjectIdOk(id) THEN Failed400(d, nid, "InvalidId")
    ELSE
    LET ci == FindIndex(d.docs["Companies"], [_id |-> ObjectId(id)])
        company == d.docs["Companies"][ci]
        cu0 == Updated(IF u.name # "" THEN [name |-> u.name] ELSE EmptyDict, u.other_fields)
        ctx0 == [db |-> d, nextId |-> nid, cu |-> cu0, exc |-> ""]
        ctx1 == SubUpdate(ctx0, company, u.location, "location_id", "Locations",
                          {"country", "state", "city", "latitude", "longitude"},
                          "404: Associated location not found",
                          "422: Missing required fields in location")
        ctx2 == SubUpdate(ctx1, company, u.contact, "contact_id", "Contacts",
                          {"phone", "email"},
                          "404: Associated location not found",
                          "422: Missing required fields in contact")
        ctx3 == IndustryUpdate(ctx2, company, u.industry)
        cu == DropCreatedAt(ctx3.cu)
    IN  IF ci = 0 THEN Failed400(d, nid, "404: Company not found")
        ELSE IF u.null
        THEN Failed400(d, nid, "AttributeError: 'NoneType' object has no attribute 'name'")
        ELSE IF ctx3.exc # "" THEN Failed400(ctx3.db, ctx3.nextId, ctx3.exc)
        ELSE Response([ctx3.db EXCEPT !.docs["Companies"] =
                           IF IsEmpty(cu) THEN @ ELSE SetOne(@, ObjectId(id), cu)],
                      ctx3.nextId, 200, "", [updated_fields |-> cu])

\* ------------------------------------------------------------- SpecDb

EmptyDb == [names |-> {}, docs |-> NoDocs]

\* The callers that use the database at the same time (two requests served
\* by two workers), none of them in a call
Callers == {"a", "b"}
NoCall == [pc |-> "idle"]
NoCalls == [p \in Callers |-> NoCall]

NoOp == [name |-> "init"]
NoResp == [kind |-> "none"]

NoLast == [op |-> NoOp, resp |-> NoResp]

\* Requests (and calls) are served one after the other: one starts when the
\* answer to the one before it has been given (Respond).
Idle == op.name = "init"

\* The request `o` is served next: the history variables record the database
\* it starts from.
Serve(o) ==
    /\ op' = o
    /\ pre' = db
    /\ last' = last
    /\ writes' = IF db' = db THEN writes ELSE writes + 1
    /\ calls' = calls

\* The handler's result r becomes the next state.
Reply(r) ==
    /\ db' = r.db
    /\ nextId' = r.nextId
    /\ resp' = [status |-> r.status, detail |-> r.detail, body |-> r.body]

\* The answer is given; the database keeps what the request did.
Respond ==
    /\ ~Idle
    /\ op' = NoOp
    /\ resp' = NoResp
    /\ pre' = db
    /\ last' = IF op.name = "get_or_create" THEN [op |-> op, resp |-> resp] ELSE NoLast
    /\ UNCHANGED <<db, nextId, writes, calls>>

\* The collection the calls of SpecDb are applied to
DedupCollections == {"Locations"}

Cities == {"SF", "NY"}

\* Candidate documents: a location as add_company prepares it (main.py:184-186),
\* and a bare one that names fewer fields than a stored document holds.
Candidates ==
    {[city |-> x, upvotes |-> 0, downvotes |-> 0, issues |-> <<>>] : x \in Cities}
    \cup {[city |-> "SF"]}

FullLocation ==
    [country |-> "US", state |-> "CA", city |-> "SF", latitude |-> "37", longitude |-> "-122"]

DictIndustry == [dict |-> TRUE, name |-> "Tech"]

ValidElement ==
    [name |-> "Acme", industry |-> DictIndustry, location |-> FullLocation,
     revenue |-> "1M", size |-> "50"]

\* The elements whose company document is prepared: with and without contact
PreparedElements ==
    {ValidElement, Updated(ValidElement, [contact |-> [phone |-> <<"1">>, email |-> "a@b"]])}

\* A company document as lines 195-206 prepare it, and the error entry of a
\* rejected element (lines 155-159)
PreparedCompany ==
    CompanyData(Updated(ValidElement, [contact |-> [phone |-> <<"1">>, email |-> "a@b"]]),
                Oid(1), Oid(1), Oid(1)).ret

RejectedEntry ==
    [error |-> <<"contact">>, data |-> Updated(ValidElement, [contact |-> [email |-> "a@b"]])]

\* Identifiers the store has assigned or can assign
GivenIds == {Oid(n) : n \in 1..MaxId}

TheIssue == [field |-> "city", reason |-> "r", suggestion |-> "s", created_at |-> Now]

VoteKinds == {"upvote", "downvote", "sidevote"}

IssuedIds == {Oid(n) : n \in 1..(nextId - 1)} \cup {Str(n) : n \in 1..(nextId - 1)}

Counter(doc, f) == IF f \in DOMAIN doc THEN doc[f] ELSE 0

\* The votes the documents of a collection have received
RECURSIVE VotesCast(_)
VotesCast(docs) ==
    IF docs = <<>> THEN 0
    ELSE Counter(Head(docs), "upvotes") + Counter(Head(docs), "downvotes") + VotesCast(Tail(docs))

DbInit ==
    /\ db = EmptyDb
    /\ nextId = 1
    /\ op = NoOp
    /\ resp = NoResp
    /\ pre = EmptyDb
    /\ last = NoLast
    /\ writes = 0
    /\ calls = NoCalls

DbGetOrCreate ==
    /\ Idle
    /\ \E c \in DedupCollections, data \in Candidates :
            /\ LET r == get_or_create(c, data, db, nextId)
               IN  /\ Len(r.db.docs[c]) <= MaxDocs
                   /\ r.nextId <= MaxId + 1
                   /\ db' = r.db
                   /\ nextId' = r.nextId
                   /\ resp' = [kind |-> "id", ret |-> r.ret]
            /\ Serve([name |-> "get_or_create", collection |-> c, data |-> data])

DbDeleteDocument ==
    /\ Idle
    /\ \E c \in DedupCollections, id \in IssuedIds :
            /\ LET r == delete_documents_single(db, id, c)
               IN  /\ db' = r.db
                   /\ resp' = [kind |-> "count", ret |-> r.deleted_count]
            /\ Serve([name |-> "delete_documents", collection |-> c, id |-> id])
            /\ UNCHANGED nextId

DbPerformVote ==
    /\ Idle
    /\ \E c \in DedupCollections, id \in IssuedIds, vote \in VoteKinds :
            /\ VotesCast(db.docs[c]) < MaxVotes
            /\ LET r == perform_vote(db, id, vote, c, TheIssue)
               IN  /\ db' = r.db
                   /\ resp' = [kind |-> "vote", exc |-> r.exc, ret |-> r.matched_count]
            /\ Serve([name |-> "perform_vote", collection |-> c, id |-> id, vote |-> vote])
            /\ UNCHANGED nextId

\* Lines 195-206 of add_company, applied to a valid element and to identifiers
\* such as get_or_create returns.
DbCompanyData ==
    /\ Idle
    /\ \E company \in PreparedElements, cid \in {Unbound, Oid(1)},
          iid \in GivenIds, lid \in GivenIds :
          /\ resp' = [kind |-> "company_data",
                      exc |-> CompanyData(company, cid, iid, lid).exc,
                      ret |-> CompanyData(company, cid, iid, lid).ret]
          /\ UNCHANGED <<db, nextId>>
          /\ Serve([name |-> "company_data", company |-> company, contact_id |-> cid,
                    industry_id |-> iid, location_id |-> lid])

\* Lines 211-233 of add_company, applied to the companies prepared from a
\* batch and to the error entries of its rejected elements.
DbAddCompanies ==
    /\ Idle
    /\ \E n \in 0..MaxBatch, e \in 0..MaxBatch :
          LET companies == [k \in 1..n |-> PreparedCompany]
              errored == [k \in 1..e |-> RejectedEntry]
              r == AddTail(db, nextId, companies, errored)
          IN  /\ Len(r.db.docs["Companies"]) <= MaxDocs
              /\ r.nextId <= MaxId + 1
              /\ Reply(r)
              /\ Serve([name |-> "add_tail", companies |-> companies, errored |-> errored])

DbNext ==
    \/ DbGetOrCreate \/ DbDeleteDocument \/ DbPerformVote \/ DbCompanyData
    \/ DbAddCompanies \/ Respond

SpecDb == DbInit /\ [][DbNext]_vars

\* ------------------------------------------------------------------ Spec

\* The documents the database holds when the API starts serving: locations,
\* an industry and a contact with the fields add_company gives them
\* (main.py:171-173, 180-186), and companies that refer to them by ObjectId
\* (main.py:195-202).
SeedLocations ==
    << Votable(Updated(FullLocation, [_id |-> Oid(1)])),
       Votable(Updated(FullLocation, [_id |-> Oid(2), city |-> "NY", created_at |-> Now])) >>

SeedIndustries == << Votable([_id |-> Oid(3), name |-> "Tech"]) >>

SeedContacts == << Votable([_id |-> Oid(4), phone |-> <<"1">>, email |-> "a@b"]) >>

RefShapes ==
    { EmptyDict,
      [location_id |-> Oid(1)],
      [location_id |-> Oid(1), industry_id |-> Oid(3), contact_id |-> Oid(4)],
      [location_id |-> Oid(2), industry_id |-> Oid(3), contact_id |-> Oid(4)] }

SeedCompany(k, refs) ==
    Votable(Updated(refs, [_id |-> Oid(4 + k), name |-> "Acme", revenue |-> "1M",
                           size |-> "50", created_at |-> Now]))

\* An identifier string that names no document, and one that is no identifier
AbsentId == Str(99)

CompanyIds == {Str(4 + k) : k \in 1..MaxSeedCompanies}

\* ---- the requests

VoteIds == {Str(5), AbsentId, BadStr}

VoteCollections == {"companies", "locations"}

IssueFields == {"name", "phone", "Email", "city", "industry"}

Issues ==
    {[null |-> TRUE, fields |-> EmptyDict],
     [null |-> FALSE, fields |-> EmptyDict],
     [null |-> FALSE, fields |-> [field |-> "name", reason |-> "r"]]}
    \cup {[null |-> FALSE, fields |-> [field |-> f, reason |-> "r", suggestion |-> "s"]] :
             f \in IssueFields}

RemoveIds == CompanyIds \cup {AbsentId}

SeqsUpTo(S, n) == UNION {[1..k -> S] : k \in 0..n}

Elements ==
    { ValidElement,
      Updated(ValidElement, [contact |-> [phone |-> <<"1">>, email |-> "a@b"]]),
      Updated(ValidElement, [contact |-> [email |-> "a@b"]]),
      Without(ValidElement, {"size"}),
      EmptyDict,
      Updated(ValidElement, [industry |-> [dict |-> FALSE, name |-> "Tech"]]) }

DataCollections == {"companies", "locations", "employees"}

NoUpdate ==
    [null |-> FALSE, name |-> "", other_fields |-> EmptyDict, location |-> EmptyDict,
     contact |-> EmptyDict, industry |-> ""]

UpdateRequests ==
    { [NoUpdate EXCEPT !.null = TRUE],
      [NoUpdate EXCEPT !.name = "Bolt"],
      [NoUpdate EXCEPT !.other_fields = [upvotes |-> 0 - 1]],
      [NoUpdate EXCEPT !.other_fields = [location_id |-> AbsentId]],
      [NoUpdate EXCEPT !.other_fields = [created_at |-> "then"]],
      [NoUpdate EXCEPT !.location = Updated(FullLocation, [city |-> "LA"])],
      [NoUpdate EXCEPT !.location = Without(FullLocation, {"city"})],
      [NoUpdate EXCEPT !.contact = [phone |-> <<"2">>, email |-> "c@d"], !.industry = "Agri"],
      [NoUpdate EXCEPT !.location = Updated(FullLocation, [city |-> "LA"]),
                       !.contact = [phone |-> <<"2">>]] }

UpdateIds == {Str(5), AbsentId, BadStr}

\* The documents of the collection search_company reads
SeedAnalyses ==
    << [_id |-> Oid(90), name |-> "Acme", city |-> "SF", industry |-> "Tech"],
       [_id |-> Oid(91), name |-> "Acme Labs", city |-> "NY", industry |-> "Tech"] >>

SearchIds == {NoId, Str(90), AbsentId, BadStr}
SearchNames == {"", "acme", "Labs"}
SearchCities == {"", "sf"}
SearchIndustries == {"", "Tech"}

\* ---- the actions: one request each

Init ==
    /\ \E n \in 0..MaxSeedCompanies : \E refs \in [1..n -> RefShapes] :
          LET docs == [NoDocs EXCEPT
                          !["Companies"] = [k \in 1..n |-> SeedCompany(k, refs[k])],
                          !["Locations"] = SeedLocations,
                          !["Industries"] = SeedIndustries,
                          !["Contacts"] = SeedContacts,
                          !["Analyses_data"] = SeedAnalyses]
          IN  /\ db = [names |-> {c \in CollectionNames : docs[c] # <<>>}, docs |-> docs]
              /\ pre = db
              /\ nextId = 5 + n
    /\ op = NoOp
    /\ resp = NoResp
    /\ last = NoLast
    /\ writes = 0
    /\ calls = NoCalls

VoteEntity ==
    /\ Idle
    /\ \E id \in VoteIds, vote \in VoteKinds, collection \in VoteCollections, issue \in Issues :
            /\ Reply(vote_entity(db, nextId, id, vote, collection, issue))
            /\ Serve([name |-> "vote_entity", id |-> id, vote |-> vote,
                      collection |-> collection, issue |-> issue])

RemoveCompany ==
    /\ Idle
    /\ \E ids \in SeqsUpTo(RemoveIds, MaxBatch) :
            /\ Reply(remove_company(db, nextId, ids))
            /\ Serve([name |-> "remove_company", ids |-> ids])

AddCompany ==
    /\ Idle
    /\ \E data \in SeqsUpTo(Elements, MaxBatch) :
            /\ Reply(add_company(db, nextId, data))
            /\ Serve([name |-> "add_company", data |-> data])

GetData ==
    /\ Idle
    /\ \E collection \in DataCollections, page \in 1..MaxPage, limit \in 1..MaxLimit :
            /\ Reply(get_data(db, nextId, collection, page, limit))
            /\ Serve([name |-> "get_data", collection |-> collection, page |-> page, limit |-> limit])

UpdateCompany ==
    /\ Idle
    /\ \E id \in UpdateIds, u \in UpdateRequests :
            /\ writes < MaxWrites
            /\ Reply(update_company(db, nextId, id, u))
            /\ Serve([name |-> "update_company", id |-> id, update_data |-> u])

SearchCompany ==
    /\ Idle
    /\ \E id \in SearchIds, name \in SearchNames, city \in SearchCities,
          industry \in SearchIndustries, page \in 1..MaxPage, limit \in {1, LimitCap} :
          /\ Reply(search_company(db, nextId, id, name, city, industry, page, limit))
          /\ Serve([name |-> "search_company", id |-> id, by_name |-> name, city |-> city,
                    industry |-> industry, page |-> page, limit |-> limit])

Next ==
    \/ VoteEntity \/ RemoveCompany \/ AddCompany \/ GetData \/ UpdateCompany
    \/ SearchCompany \/ Respond

Spec == Init /\ [][Next]_vars

\* ------------------------------------------------------------- SpecCalls

\* Each caller runs one function of DatabaseHandler at a time; a step is one
\* operation on the database (find_one, insert_one, update_one, delete_one),
\* and the steps of the two callers interleave freely: the functions take no
\* lock and open no transaction.
CallCandidates ==
    {[city |-> x, upvotes |-> 0, downvotes |-> 0, issues |-> <<>>] : x \in Cities}

StoredIds == {Oid(n) : n \in 1..(nextId - 1)}

CallsInit ==
    /\ db = EmptyDb
    /\ nextId = 1
    /\ op = NoOp
    /\ resp = NoResp
    /\ pre = EmptyDb
    /\ last = NoLast
    /\ writes = 0
    /\ calls = NoCalls

\* get_or_create, lines 19-23
CallLookup(p) ==
    /\ calls[p].pc = "idle"
    /\ nextId <= MaxId
    /\ \E c \in DedupCollections, data \in CallCandidates :
          LET r == GetOrCreateLookup(c, data, db)
          IN  /\ db' = r.db
              /\ calls' = [calls EXCEPT ![p] =
                               [pc |-> "looked_up", name |-> "get_or_create",
                                collection |-> c, data |-> data, existing |-> r.existing]]
    /\ UNCHANGED <<nextId, op, resp, pre, last, writes>>

\* get_or_create, lines 24-27
CallInsertOrReturn(p) ==
    /\ calls[p].pc = "looked_up"
    /\ LET r == GetOrCreateResult(calls[p].collection, calls[p].data, db, nextId,
                                  calls[p].existing)
       IN  /\ db' = r.db
           /\ nextId' = r.nextId
           /\ calls' = [calls EXCEPT ![p] = [@ EXCEPT !.pc = "returned"] @@ [ret |-> r.ret]]
    /\ UNCHANGED <<op, resp, pre, last, writes>>

\* perform_vote, lines 60-67: the identifier's form, then the $inc of an
\* upvote or of a downvote; any other vote raises.
CallVote(p) ==
    /\ calls[p].pc = "idle"
    /\ \E c \in DedupCollections, id \in StoredIds, vote \in VoteKinds :
          /\ VotesCast(db.docs[c]) < MaxVotes
          /\ db' = [db EXCEPT !.docs[c] =
                        CASE Lower(vote) = "upvote" -> IncOne(@, VoteTargetId(id), "upvotes")
                          [] Lower(vote) = "downvote" -> IncOne(@, VoteTargetId(id), "downvotes")
                          [] OTHER -> @]
          /\ calls' = [calls EXCEPT ![p] =
                           [pc |-> IF Lower(vote) = "downvote" THEN "incremented" ELSE "returned",
                            name |-> "perform_vote", collection |-> c, id |-> id]]
    /\ UNCHANGED <<nextId, op, resp, pre, last, writes>>

\* perform_vote, line 68: the $push of the issue
CallPushIssue(p) ==
    /\ calls[p].pc = "incremented"
    /\ db' = [db EXCEPT !.docs[calls[p].collection] =
                  PushOne(@, VoteTargetId(calls[p].id), "issues", TheIssue)]
    /\ calls' = [calls EXCEPT ![p].pc = "returned"]
    /\ UNCHANGED <<nextId, op, resp, pre, last, writes>>

\* delete_documents(db, id, collection, "single")
CallDelete(p) ==
    /\ calls[p].pc = "idle"
    /\ \E c \in DedupCollections, id \in StoredIds :
          /\ db' = delete_documents_single(db, id, c).db
          /\ calls' = [calls EXCEPT ![p] =
                           [pc |-> "returned", name |-> "delete_documents",
                            collection |-> c, id |-> id]]
    /\ UNCHANGED <<nextId, op, resp, pre, last, writes>>

\* The call returns; the caller may call again.
CallReturn(p) ==
    /\ calls[p].pc = "returned"
    /\ calls' = [calls EXCEPT ![p] = NoCall]
    /\ UNCHANGED <<db, nextId, op, resp, pre, last, writes>>

CallsNext ==
    \E p \in Callers :
        \/ CallLookup(p) \/ CallInsertOrReturn(p) \/ CallVote(p)
        \/ CallPushIssue(p) \/ CallDelete(p) \/ CallReturn(p)

SpecCalls == CallsInit /\ [][CallsNext]_vars

\* ------------------------------------------------------------- SpecPages

\* The paginated read over a collection of any size from 0 to MaxCount, with
\* every limit the route accepts.  The collection exists also when it holds
\* no document (create_collection, database.py:19-20).
PagedCollection == "Locations"

PagedDocs(count) == [k \in 1..count |-> [_id |-> Oid(k), city |-> "SF"]]

PagesInit ==
    /\ \E count \in 0..MaxCount :
          /\ db = [names |-> {PagedCollection},
                   docs |-> [NoDocs EXCEPT ![PagedCollection] = PagedDocs(count)]]
          /\ nextId = count + 1
    /\ pre = db
    /\ op = NoOp
    /\ resp = NoResp
    /\ last = NoLast
    /\ writes = 0
    /\ calls = NoCalls

PagesGetData ==
    /\ Idle
    /\ \E page \in 1..MaxReadPage, limit \in 1..LimitCap :
          /\ Reply(get_data(db, nextId, Lower(PagedCollection), page, limit))
          /\ Serve([name |-> "get_data", collection |-> Lower(PagedCollection),
                    page |-> page, limit |-> limit])

PagesNext == PagesGetData \/ Respond

SpecPages == PagesInit /\ [][PagesNext]_vars

\* ------------------------------------------------------------------ claims

\* C1: two sequential get_or_create calls on the same collection with
\* field-identical candidates return the same identifier, and the second call
\* inserts no document.
C1_SecondCallFindsFirst ==
    (/\ op.name = "get_or_create"
     /\ last.op.name = "get_or_create"
     /\ last.op.collection = op.collection
     /\ last.op.data = op.data)
    => (/\ resp.ret = last.resp.ret
        /\ db.docs = pre.docs)

\* C1 witness: a first call that inserted a second document, then a second
\* call with the same candidate, which returned that document's identifier.
C1_Witness ==
    /\ op.name = "get_or_create"
    /\ last.op.name = "get_or_create"
    /\ last.op.collection = op.collection
    /\ last.op.data = op.data
    /\ Len(db.docs[op.collection]) >= 2
    /\ resp.ret = db.docs[op.collection][Len(db.docs[op.collection])]["_id"]

\* ---- what the claims about the API speak of

\* The documents of collection c that the request changed, added or removed,
\* by identifier
Changed(c) ==
    {x \in {pre.docs[c][i]["_id"] : i \in 1..Len(pre.docs[c])}
           \cup {db.docs[c][i]["_id"] : i \in 1..Len(db.docs[c])} :
        LET a == FindIndex(pre.docs[c], [_id |-> x])
            b == FindIndex(db.docs[c], [_id |-> x])
        IN  a = 0 \/ b = 0 \/ pre.docs[c][a] # db.docs[c][b]}

Holds(d, c, x) == FindIndex(d.docs[c], [_id |-> x]) # 0

DocOf(d, c, x) == d.docs[c][FindIndex(d.docs[c], [_id |-> x])]

\* The document a vote on company `id` that flags `field` is to be recorded
\* on: [c, id], with c = "" when the company or the document it refers to
\* does not exist.
NoTarget == [c |-> "", id |-> Oid(0)]
Referred(company, ref, c) ==
    IF ref \in DOMAIN company /\ ObjectIdOk(company[ref]) /\ Holds(pre, c, ObjectId(company[ref]))
    THEN [c |-> c, id |-> ObjectId(company[ref])]
    ELSE NoTarget
VoteTarget(id, field) ==
    IF ~ObjectIdOk(id) \/ ~Holds(pre, "Companies", ObjectId(id)) THEN NoTarget
    ELSE LET company == DocOf(pre, "Companies", ObjectId(id))
         IN  CASE field \in {"phone", "email"} -> Referred(company, "contact_id", "Contacts")
               [] field \in {"country", "state", "city", "latitude", "longitude"} ->
                      Referred(company, "location_id", "Locations")
               [] field = "industry" -> Referred(company, "industry_id", "Industries")
               [] OTHER -> [c |-> "Companies", id |-> ObjectId(id)]

CompleteIssue(issue) ==
    ~issue.null /\ {"field", "reason", "suggestion"} \subseteq DOMAIN issue.fields

VoteOnCompany ==
    /\ op.name = "vote_entity"
    /\ Capitalize(op.collection) = "Companies"

OnlyChanged(t) ==
    \A c \in CollectionNames : Changed(c) = IF c = t.c THEN {t.id} ELSE {}

\* C2: a single-id remove_company on an existing company removes the company
\* and, when its location_id names an existing Location, that Location; with
\* no location_id it removes no document of any other collection.
C2_SingleDeleteCascades ==
    (/\ op.name = "remove_company"
     /\ Len(op.ids) = 1
     /\ ObjectIdOk(op.ids[1])
     /\ Holds(pre, "Companies", ObjectId(op.ids[1])))
    => LET company == DocOf(pre, "Companies", ObjectId(op.ids[1]))
           loc == Referred(company, "location_id", "Locations")
       IN  /\ Changed("Companies") = {company["_id"]}
           /\ ~Holds(db, "Companies", company["_id"])
           /\ loc.c = "Locations" => ~Holds(db, "Locations", loc.id)
           /\ "location_id" \notin DOMAIN company =>
                 \A c \in CollectionNames \ {"Companies"} : Changed(c) = {}

\* C3: a batch of N elements of which M fail validation is answered with N-M
\* identifiers in successful_results and M entries in failed_results, one per
\* invalid element, in order, each carrying that element as its data.
C3_FailsValidation(e) ==
    \/ ~({"name", "industry", "location", "revenue", "size"} \subseteq DOMAIN e)
    \/ ~({"country", "state", "city", "latitude", "longitude"} \subseteq DOMAIN e["location"])
    \/ ("contact" \in DOMAIN e /\ DOMAIN e["contact"] \cap {"phone", "email"} = {})
C3_BatchAddCounts ==
    (op.name = "add_company" /\ Len(op.data) >= 1)
    => LET invalid == SelectSeq(op.data, C3_FailsValidation)
       IN  /\ resp.status = 200
           /\ Len(resp.body.successful_results) = Len(op.data) - Len(invalid)
           /\ Len(resp.body.failed_results) = Len(invalid)
           /\ \A k \in 1..Len(invalid) : resp.body.failed_results[k].data = invalid[k]

\* C4: a downvote on an existing target with a complete issue raises the
\* downvotes of exactly one document by exactly 1, appends exactly one issue
\* record to that document and leaves its upvotes unchanged.
C4_DownvoteRecorded ==
    (/\ VoteOnCompany
     /\ Lower(op.vote) = "downvote"
     /\ CompleteIssue(op.issue)
     /\ VoteTarget(op.id, Lower(op.issue.fields.field)).c # "")
    => LET t == VoteTarget(op.id, Lower(op.issue.fields.field))
           before == DocOf(pre, t.c, t.id)
           after == DocOf(db, t.c, t.id)
       IN  /\ OnlyChanged(t)
           /\ Holds(db, t.c, t.id)
           /\ after["downvotes"] = before["downvotes"] + 1
           /\ Len(after["issues"]) = Len(before["issues"]) + 1
           /\ after["upvotes"] = before["upvotes"]

\* C5: a downvote whose issue is missing, empty or lacks any of field, reason
\* or suggestion is rejected with an error, the error of the first check that
\* fails (collection name, issue datatype, empty issue, issue format), and no
\* document of any collection is changed.
C5_Rejections ==
    {"400: Invalid collection name",
     "400: Invalid datatype for issue. It has to be in a json format",
     "400: Issue can not be empty",
     "400: Invalid issue format"}
C5_IncompleteIssueRejected ==
    (/\ op.name = "vote_entity"
     /\ Lower(op.vote) = "downvote"
     /\ ~CompleteIssue(op.issue))
    => (/\ resp.status >= 400
        /\ resp.detail \in C5_Rejections
        /\ db = pre)

\* C5 witness: a downvote on an existing company whose issue lacks only the
\* suggestion has been rejected as an invalid issue.
C5_Witness ==
    /\ VoteOnCompany
    /\ Lower(op.vote) = "downvote"
    /\ ~op.issue.null
    /\ DOMAIN op.issue.fields = {"field", "reason"}
    /\ Holds(pre, "Companies", ObjectId(op.id))
    /\ resp.status = 500
    /\ resp.detail = "400: Invalid issue format"
    /\ db = pre

\* C6: an upvote on an existing target raises that document's upvotes by
\* exactly 1 and leaves its downvotes and issues unchanged; it is accepted
\* without an issue body, the vote then going to the target itself.
C6_UpvoteRecorded ==
    (/\ VoteOnCompany
     /\ op.vote = "upvote"
     /\ ~op.issue.null
     /\ (CompleteIssue(op.issue) \/ DOMAIN op.issue.fields = {})
     /\ VoteTarget(op.id, IF CompleteIssue(op.issue)
                          THEN Lower(op.issue.fields.field) ELSE "").c # "")
    => LET t == VoteTarget(op.id, IF CompleteIssue(op.issue)
                                  THEN Lower(op.issue.fields.field) ELSE "")
           before == DocOf(pre, t.c, t.id)
           after == DocOf(db, t.c, t.id)
       IN  /\ resp.status = 200
           /\ OnlyChanged(t)
           /\ Holds(db, t.c, t.id)
           /\ after["upvotes"] = before["upvotes"] + 1
           /\ after["downvotes"] = before["downvotes"]
           /\ after["issues"] = before["issues"]

\* C7: a vote on a company is recorded on exactly the document the flagged
\* field routes to (Contact for phone/email, Location for the location
\* fields, Industry for industry, the company itself otherwise): that
\* document's counters change and no other document changes.
C7_VoteRouted ==
    (/\ VoteOnCompany
     /\ Lower(op.vote) \in {"upvote", "downvote"}
     /\ CompleteIssue(op.issue)
     /\ VoteTarget(op.id, Lower(op.issue.fields.field)).c # "")
    => LET t == VoteTarget(op.id, Lower(op.issue.fields.field))
       IN  /\ Changed(t.c) = {t.id}
           /\ \A c \in CollectionNames \ {t.c} : Changed(c) = {}
           /\ Holds(db, t.c, t.id)
           /\ DocOf(db, t.c, t.id)["upvotes"] + DocOf(db, t.c, t.id)["downvotes"]
                 = DocOf(pre, t.c, t.id)["upvotes"] + DocOf(pre, t.c, t.id)["downvotes"] + 1

\* C8: a vote request whose kind is neither upvote nor downvote, with a
\* complete issue and an existing target, is rejected as an invalid vote
\* ("Invalid vote type") and changes no document.
C8_InvalidKindRejected ==
    (/\ VoteOnCompany
     /\ Lower(op.vote) \notin {"upvote", "downvote"}
     /\ CompleteIssue(op.issue)
     /\ VoteTarget(op.id, Lower(op.issue.fields.field)).c # "")
    => (/\ resp.status >= 400
        /\ resp.detail = "400: Invalid vote type"
        /\ db = pre)

\* C9: the upvotes and downvotes of every stored document are non-negative
\* and never decrease from one state to the next while the document exists.
C9_VotesNeverDecrease ==
    [][\A c \in CollectionNames : \A i \in 1..Len(db.docs[c]) : \A j \in 1..Len(db'.docs[c]) :
          db.docs[c][i]["_id"] = db'.docs[c][j]["_id"]
          => \A f \in {"upvotes", "downvotes"} :
                /\ Counter(db'.docs[c][j], f) >= 0
                /\ Counter(db'.docs[c][j], f) >= Counter(db.docs[c][i], f)]_vars

\* C10: in the paginated read of Companies, every returned company whose
\* stored document holds a location_id naming an existing Location has no
\* location_id in the output and a location equal to that Location without
\* its identifier and creation timestamp.
C10_LocationResolved ==
    (/\ op.name = "get_data"
     /\ Capitalize(op.collection) = "Companies"
     /\ resp.status = 200)
    => \A k \in 1..Len(resp.body.data) :
          LET stored == pre.docs["Companies"][(op.page - 1) * op.limit + k]
              loc == Referred(stored, "location_id", "Locations")
              out == resp.body.data[k]
          IN  loc.c = "Locations"
              => /\ "location_id" \notin DOMAIN out
                 /\ "location" \in DOMAIN out
                 /\ out["location"] = Without(DocOf(pre, "Locations", loc.id), {"_id", "created_at"})

\* C11: the paginated read of a collection of count documents with limit in
\* 1..100 reports total_pages = ceil(count / limit), the least p with
\* p * limit >= count, which is 0 when count is 0.
C11_TotalPagesIsCeiling ==
    (op.name = "get_data" /\ resp.status = 200)
    => LET count == Len(pre.docs[Capitalize(op.collection)])
           p == resp.body.total_pages
       IN  /\ p * op.limit >= count
           /\ (p - 1) * op.limit < count
           /\ count = 0 => p = 0

\* C11 witness: a read of a collection that holds more documents than the
\* limit, which does not divide their number, answered with a last page that
\* is not full.
C11_Witness ==
    /\ op.name = "get_data"
    /\ resp.status = 200
    /\ op.limit > 1
    /\ Len(pre.docs[Capitalize(op.collection)]) % op.limit # 0
    /\ Len(pre.docs[Capitalize(op.collection)]) > op.limit
    /\ resp.body.total_pages * op.limit > Len(pre.docs[Capitalize(op.collection)])

\* C12: a remove_company call with two or more ids (no existing company
\* listed twice) is answered with a report, not an error; every listed company
\* that exists is deleted with the Location it refers to; failed_results names
\* exactly the ids that were not found; failed_count counts them,
\* successful_count counts the companies deleted, and the two add up to the
\* number of ids passed.
C12_Found(i) ==
    ObjectIdOk(op.ids[i]) /\ Holds(pre, "Companies", ObjectId(op.ids[i]))
C12_BatchDeleteReport ==
    (/\ op.name = "remove_company"
     /\ Len(op.ids) >= 2
     /\ \A i, j \in 1..Len(op.ids) : (i # j /\ C12_Found(i)) => op.ids[i] # op.ids[j])
    => LET found == {i \in 1..Len(op.ids) : C12_Found(i)}
           missing == (1..Len(op.ids)) \ found
       IN  /\ resp.status = 200
           /\ \A i \in found :
                 LET company == DocOf(pre, "Companies", ObjectId(op.ids[i]))
                     loc == Referred(company, "location_id", "Locations")
                 IN  /\ ~Holds(db, "Companies", company["_id"])
                     /\ loc.c = "Locations" => ~Holds(db, "Locations", loc.id)
           /\ resp.body.failed_count = Cardinality(missing)
           /\ resp.body.successful_count = Cardinality(found)
           /\ resp.body.failed_count + resp.body.successful_count = Len(op.ids)
           /\ {op.ids[i] : i \in missing} = {resp.body.failed_results.data}

\* C13: a single-id remove_company on an existing company whose location_id
\* names no existing Location deletes the company, changes no other document
\* and reports success.
C13_MissingLocationTolerated ==
    (/\ op.name = "remove_company"
     /\ Len(op.ids) = 1
     /\ ObjectIdOk(op.ids[1])
     /\ Holds(pre, "Companies", ObjectId(op.ids[1]))
     /\ "location_id" \in DOMAIN DocOf(pre, "Companies", ObjectId(op.ids[1]))
     /\ Referred(DocOf(pre, "Companies", ObjectId(op.ids[1])), "location_id", "Locations").c = "")
    => (/\ resp.status = 200
        /\ ~Holds(db, "Companies", ObjectId(op.ids[1]))
        /\ OnlyChanged([c |-> "Companies", id |-> ObjectId(op.ids[1])]))

\* C14: a single-id remove_company whose id names no company is answered
\* 404 'Company not found' and leaves every collection unchanged.
C14_AbsentCompanyNotFound ==
    (/\ op.name = "remove_company"
     /\ Len(op.ids) = 1
     /\ ObjectIdOk(op.ids[1])
     /\ ~Holds(pre, "Companies", ObjectId(op.ids[1])))
    => (/\ resp.status = 404
        /\ resp.detail = "Company not found"
        /\ db = pre)

\* C15: the company search answers 400 when no search parameter is given,
\* 404 when a well-formed id is given that names no document, and otherwise
\* (a name or a city, or an id that names a document) 200 with a body that
\* holds message and data.
C15_NoParameter ==
    op.id = NoId /\ op.by_name = "" /\ op.city = "" /\ op.industry = ""
C15_SearchAnswers ==
    (op.name = "search_company")
    => /\ C15_NoParameter => resp.status = 400
       /\ (ObjectIdOk(op.id) /\ ~Holds(pre, "Analyses_data", ObjectId(op.id)))
              => resp.status = 404
       /\ (\/ (ObjectIdOk(op.id) /\ Holds(pre, "Analyses_data", ObjectId(op.id)))
           \/ (op.id = NoId /\ (op.by_name # "" \/ op.city # "")))
              => (resp.status = 200 /\ {"message", "data"} \subseteq DOMAIN resp.body)

\* C16: a batch made only of elements that hold name, industry, a complete
\* location, revenue and size and no contact is answered 'All Companies added
\* successfully' with one identifier per element in successful_results and an
\* empty failed_results.
C16_NoContactElement(e) ==
    /\ {"name", "industry", "location", "revenue", "size"} \subseteq DOMAIN e
    /\ {"country", "state", "city", "latitude", "longitude"} \subseteq DOMAIN e["location"]
    /\ e["industry"].dict
    /\ "contact" \notin DOMAIN e
C16_NoContactBatchAdded ==
    (/\ op.name = "add_company"
     /\ Len(op.data) >= 1
     /\ \A k \in 1..Len(op.data) : C16_NoContactElement(op.data[k]))
    => (/\ resp.status = 200
        /\ resp.body.message = "All Companies added successfully"
        /\ Len(resp.body.successful_results) = Len(op.data)
        /\ resp.body.failed_results = <<>>)

\* C17: the company document add_company prepares for storage holds a
\* location_id equal to the identifier returned for its location, an
\* industry_id equal to the one returned for its industry, and no embedded
\* location, industry or contact sub-document.
C17_StoredReferences ==
    (op.name = "company_data" /\ resp.exc = "")
    => (/\ DOMAIN resp.ret \cap {"location", "industry", "contact"} = {}
        /\ "industry_id" \in DOMAIN resp.ret
        /\ resp.ret["industry_id"] = op.industry_id
        /\ "location_id" \in DOMAIN resp.ret
        /\ resp.ret["location_id"] = op.location_id)

\* C18: a remove_company call that lists an existing company deletes the
\* company and the Contact its contact_id names; a company without contact_id,
\* or whose contact_id names no Contact, is deleted all the same.
C18_ContactDeletedWithCompany ==
    (/\ op.name = "remove_company"
     /\ Len(op.ids) >= 1
     /\ \A i \in 1..Len(op.ids) : ObjectIdOk(op.ids[i]))
    => \A i \in 1..Len(op.ids) :
          Holds(pre, "Companies", ObjectId(op.ids[i]))
          => LET company == DocOf(pre, "Companies", ObjectId(op.ids[i]))
                 contact == Referred(company, "contact_id", "Contacts")
             IN  /\ resp.status = 200
                 /\ ~Holds(db, "Companies", company["_id"])
                 /\ contact.c = "Contacts" => ~Holds(db, "Contacts", contact.id)

\* C19: the paginated read of Companies succeeds whatever the references
\* name; a company whose location_id or industry_id names no document is
\* returned without the field that could not be resolved, and every other
\* company of the page, before or after it, is fully resolved (location and
\* industry embedded, location_id and industry_id removed).
C19_Dangling(stored, ref, c) ==
    ref \in DOMAIN stored /\ Referred(stored, ref, c).c = ""
C19_FailureStaysLocal ==
    (/\ op.name = "get_data"
     /\ Capitalize(op.collection) = "Companies"
     /\ "Companies" \in pre.names)
    => /\ resp.status = 200
       /\ \A k \in 1..Len(resp.body.data) :
             LET stored == pre.docs["Companies"][(op.page - 1) * op.limit + k]
                 out == resp.body.data[k]
             IN  /\ C19_Dangling(stored, "location_id", "Locations")
                       => "location" \notin DOMAIN out
                 /\ C19_Dangling(stored, "industry_id", "Industries")
                       => "industry" \notin DOMAIN out
                 /\ (/\ ~C19_Dangling(stored, "location_id", "Locations")
                     /\ ~C19_Dangling(stored, "industry_id", "Industries"))
                       => /\ "location_id" \in DOMAIN stored
                                => ("location_id" \notin DOMAIN out /\ "location" \in DOMAIN out)
                          /\ "industry_id" \in DOMAIN stored
                                => ("industry_id" \notin DOMAIN out /\ "industry" \in DOMAIN out)

\* C20: the report of add_company carries the 'all added successfully'
\* message exactly when failed_results is empty, the 'no companies were added'
\* message exactly when successful_results is empty and failed_results is
\* not, and the 'some were added but others failed' message exactly when both
\* are non-empty; a batch whose elements were all rejected is answered with
\* this report, not with an error.
C20_MessageMatchesOutcome ==
    (op.name = "add_tail" /\ (op.companies # <<>> \/ op.errored # <<>>))
    => /\ resp.status = 200
       /\ resp.body.failed_results = op.errored
       /\ Len(resp.body.successful_results) = Len(op.companies)
       /\ (resp.body.message = "All Companies added successfully")
             <=> (resp.body.failed_results = <<>>)
       /\ (resp.body.message = "No companies were added")
             <=> (resp.body.successful_results = <<>> /\ resp.body.failed_results # <<>>)
       /\ (resp.body.message = "Some Companies were added successfully but others failed")
             <=> (resp.body.successful_results # <<>> /\ resp.body.failed_results # <<>>)

\* C21: two get_or_create calls with the same candidate on the same
\* collection that both ran their existence check before either inserted, and
\* both found nothing, both insert: they return different identifiers, and
\* (nothing being deleted meanwhile) the collection then holds two documents
\* with the candidate's fields under those two identifiers.
C21_BothMissed(p, q) ==
    /\ p # q
    /\ calls[p].pc = "returned" /\ calls[p].name = "get_or_create"
    /\ calls[q].pc = "returned" /\ calls[q].name = "get_or_create"
    /\ calls[p].collection = calls[q].collection
    /\ calls[p].data = calls[q].data
    /\ ~calls[p].existing.found
    /\ ~calls[q].existing.found
C21_Duplicate(p, q) ==
    LET c == calls[p].collection
    IN  /\ calls[p].ret # calls[q].ret
        /\ Holds(db, c, calls[p].ret)
        /\ Holds(db, c, calls[q].ret)
        /\ Without(DocOf(db, c, calls[p].ret), {"_id"}) = calls[p].data
        /\ Without(DocOf(db, c, calls[q].ret), {"_id"}) = calls[q].data
C21_RacingCallsBothInsert ==
    \A p, q \in Callers :
        C21_BothMissed(p, q)
        => /\ calls[p].ret # calls[q].ret
           /\ (Holds(db, calls[p].collection, calls[p].ret)
                /\ Holds(db, calls[q].collection, calls[q].ret)
                /\ VotesCast(db.docs[calls[p].collection]) = 0)
                 => C21_Duplicate(p, q)

\* C21 witness: both calls have returned, each having found nothing, and the
\* collection holds two field-identical documents under different identifiers.
C21_Witness ==
    \E p, q \in Callers : C21_BothMissed(p, q) /\ C21_Duplicate(p, q)

\* C22: in every state another caller can observe, every document (all are
\* created with downvotes 0 and an empty issues list, and change only by
\* votes) has downvotes equal to the length of its issues list.
C22_DownvotesMatchIssues ==
    \A c \in DedupCollections :
        \A i \in 1..Len(db.docs[c]) :
            Counter(db.docs[c][i], "downvotes") = Len(db.docs[c][i]["issues"])

\* C23: an upvote or downvote that perform_vote applies to a document the
\* collection holds matches that document, whether the identifier arrives as
\* a string or already parsed: matched_count is not 0, so the caller does
\* not report "Document not found".
C23_VoteOnExisting ==
    /\ op.name = "perform_vote"
    /\ op.vote \in {"upvote", "downvote"}
    /\ Holds(pre, op.collection, ObjectId(op.id))
C23_ExistingTargetMatched ==
    C23_VoteOnExisting => resp.ret # 0

\* C24: in an add_company batch whose elements hold every required company
\* and location field and a contact carrying at least one of phone and email,
\* no element is rejected: the scan of the batch lists no error entry.
C24_ContactWithOneOf(e) ==
    /\ {"name", "industry", "location", "revenue", "size", "contact"} \subseteq DOMAIN e
    /\ {"country", "state", "city", "latitude", "longitude"} \subseteq DOMAIN e["location"]
    /\ e["industry"].dict
    /\ DOMAIN e["contact"] \cap {"phone", "email"} # {}
C24_OneOfPhoneEmailAccepted ==
    (/\ op.name = "add_company"
     /\ Len(op.data) >= 1
     /\ \A k \in 1..Len(op.data) : C24_ContactWithOneOf(op.data[k]))
    => AddScan(op.data, 1, <<>>).errored = <<>>

\* C25: a collection filled through get_or_create with candidates prepared as
\* add_company prepares them (upvotes 0, downvotes 0, issues []) and changed
\* by votes holds at most one document per submitted field tuple: no two of
\* its documents agree on every field other than _id and the vote fields.
C25_Submitted(doc) == Without(doc, {"_id", "upvotes", "downvotes", "issues"})
C25_Prepared(doc) == {"upvotes", "downvotes", "issues"} \subseteq DOMAIN doc
C25_OneDocumentPerTuple ==
    \A c \in DedupCollections :
        \A i, j \in 1..Len(db.docs[c]) :
            (/\ i # j
             /\ C25_Prepared(db.docs[c][i])
             /\ C25_Prepared(db.docs[c][j]))
            => C25_Submitted(db.docs[c][i]) # C25_Submitted(db.docs[c][j])

\* C26: between requests, every company that holds a location_id refers to
\* a Location the database holds.
C26_LocationsExist ==
    \A i \in 1..Len(db.docs["Companies"]) :
        LET company == db.docs["Companies"][i]
        IN  "location_id" \in DOMAIN company
            => /\ ObjectIdOk(company["location_id"])
               /\ Holds(db, "Locations", ObjectId(company["location_id"]))

\* C27: an update_company request answered with an error leaves every
\* collection as it was when the request arrived.
C27_Errors ==
    {"404: Company not found",
     "422: Missing required fields in location",
     "422: Missing required fields in contact",
     "404: Associated location not found"}
C27_FailedUpdateChangesNothing ==
    (/\ op.name = "update_company"
     /\ resp.status # 200
     /\ resp.detail \in C27_Errors)
    => db = pre

\* C28: for a collection that does not change and a limit in 1..100, page p
\* of the paginated read holds the documents at offsets (p-1)*limit ..
\* p*limit-1 of the collection in insertion order (as many of them as
\* exist), every page beyond total_pages is empty, and pages 1 through
\* total_pages read one after the other give every document exactly once,
\* in insertion order.
RECURSIVE C28_ReadPages(_, _, _, _, _)
C28_ReadPages(d, collection, limit, p, total_pages) ==
    IF p > total_pages THEN <<>>
    ELSE get_data(d, 1, collection, p, limit).body.data
             \o C28_ReadPages(d, collection, limit, p + 1, total_pages)
C28_PagesPartitionCollection ==
    (op.name = "get_data" /\ resp.status = 200)
    => LET docs == pre.docs[Capitalize(op.collection)]
           count == Len(docs)
           first == (op.page - 1) * op.limit
           data == resp.body.data
       IN  /\ db = pre
           /\ Len(data) = IF first >= count THEN 0 ELSE Min(op.limit, count - first)
           /\ \A k \in 1..Len(data) : data[k] = serialize_doc(docs[first + k])
           /\ op.page > resp.body.total_pages => data = <<>>
           /\ C28_ReadPages(db, op.collection, op.limit, 1, resp.body.total_pages)
                  = [k \in 1..count |-> serialize_doc(docs[k])]

\* C28 witness: the read of the last of three or more pages, which holds
\* fewer documents than the limit.
C28_Witness ==
    /\ op.name = "get_data"
    /\ resp.status = 200
    /\ resp.body.total_pages >= 3
    /\ op.page = resp.body.total_pages
    /\ resp.body.data # <<>>
    /\ Len(resp.body.data) < op.limit
    /\ resp.body.data[1] = serialize_doc(pre.docs[Capitalize(op.collection)][(op.page - 1) * op.limit + 1])

====
